---- MODULE Spec2Model ----
(***************************************************************************)
(* A model of process_questions.py: the credential rotator and the Model   *)
(* Caller (get_next_key, call_gemini_api), the cached Translator           *)
(* (translate_topic_to_english), the Explanation Generator                 *)
(* (generate_explanation, generate_explanations_only), the Tolerant        *)
(* Parser (safe_json_parse), the structuring and topic resolution of       *)
(* extract_structured_questions and the Batch Runner (process_image,       *)
(* process_folder_with_breaks, process_all_folders) with its checkpoints.  *)
(*                                                                         *)
(* Strings are sequences of tokens: a token is one character (a blank, a   *)
(* quote, an answer letter) or a word no operation of the program looks    *)
(* into.  Python's None is the value None below; it is falsy, like the     *)
(* empty string <<>>.                                                      *)
(***************************************************************************)
EXTENDS Integers, Sequences, FiniteSets, TLC

VARIABLES
    API_KEYS,                  \* the credential pool (line 19)
    key_index,                 \* the rotation cursor (line 44)
    keylog,                    \* history: every credential get_next_key handed out
    caller,                    \* the frame of a sequential call_gemini_api
    threads,                   \* the frames of the explanation workers
    pool,                      \* generate_explanations_only: questions, futures, results
    TOPIC_TRANSLATION_CACHE,   \* line 40
    GLOBAL_TOPIC_TRACKER,      \* line 34
    tr,                        \* the last translate_topic_to_english call and the call counts
    run,                       \* the frame of process_folder_with_breaks and its files
    parse,                     \* the argument and the result of a safe_json_parse call
    ext                        \* the frame of extract_structured_questions on one raw text

vars == <<API_KEYS, key_index, keylog, caller, threads, pool,
          TOPIC_TRANSLATION_CACHE, GLOBAL_TOPIC_TRACKER, tr, run, parse, ext>>

(***************************************************************************)
(* Bounds of the model.                                                    *)
(***************************************************************************)
MaxKeys == 3
MaxCalls == 7

(***************************************************************************)
(* Strings.                                                                *)
(***************************************************************************)
None == <<"<None>">>

Truthy(x) == x # None /\ x # <<>>

WS == {" ", "\n"}

RECURSIVE lstrip(_, _)
lstrip(s, cs) == IF s # <<>> /\ Head(s) \in cs THEN lstrip(Tail(s), cs) ELSE s

RECURSIVE rstrip(_, _)
rstrip(s, cs) ==
    IF s # <<>> /\ s[Len(s)] \in cs THEN rstrip(SubSeq(s, 1, Len(s) - 1), cs) ELSE s

strip(s, cs) == rstrip(lstrip(s, cs), cs)

startswith(s, p) == Len(p) <= Len(s) /\ SubSeq(s, 1, Len(p)) = p

Range(s) == {s[i] : i \in 1..Len(s)}

(***************************************************************************)
(* Key Rotator: get_next_key.                                              *)
(***************************************************************************)
Pools == {[i \in 1..k |-> i] : k \in 1..MaxKeys}

\* line 49: API_KEYS[key_index % len(API_KEYS)], Python's index 0 being API_KEYS[1]
key_at(ki) == API_KEYS[(ki % Len(API_KEYS)) + 1]

key_index_skip(ki) == ki + 2

\* line 50: key_index += 1
key_index_next(ki) == ki + 1

get_next_key(ki) == [key |-> key_at(ki), key_index |-> key_index_next(ki)]

(***************************************************************************)
(* Model Caller: call_gemini_api.  A response of the service is an         *)
(* exception raised by requests.post, or a status with a body.             *)
(***************************************************************************)
RawTexts == {<<>>, <<" ">>, <<"A">>, <<" ", "A", "\n">>}

Bodies ==
    {[shape |-> sh, text |-> <<>>] :
        sh \in {"notjson", "nocandidates", "nocontent", "noparts"}}
    \cup {[shape |-> "text", text |-> t] : t \in RawTexts}

NoBody == [shape |-> "nocandidates", text |-> <<>>]

Responses ==
    {[exc |-> e, status |-> 0, body |-> NoBody] : e \in {"Timeout", "ConnectionError"}}
    \cup {[exc |-> "none", status |-> s, body |-> NoBody] : s \in {429, 500}}
    \cup {[exc |-> "none", status |-> 200, body |-> b] : b \in Bodies}

\* the classes an exception is an instance of
Bases(exc) ==
    CASE exc = "Timeout" -> {"Timeout", "RequestException", "Exception"}
      [] exc = "ConnectionError" -> {"RequestException", "Exception"}
      [] OTHER -> {exc, "Exception"}

\* lines 95, 98, 101
except_clauses == {"Timeout", "RequestException", "Exception"}

caught(exc) == Bases(exc) \cap except_clauses # {}

on_exception(exc) ==
    IF caught(exc) THEN [ctl |-> "continue", text |-> None]
    ELSE [ctl |-> "raise", text |-> None]

\* lines 80-93 with the handlers of lines 95-103: what one iteration of the loop does
\* with the response; "next" falls off the end of the loop body (line 86)
request_outcome(resp) ==
    IF resp.exc # "none" THEN on_exception(resp.exc)
    ELSE IF resp.status = 200 THEN
        CASE resp.body.shape = "notjson" -> on_exception("JSONDecodeError")
          [] resp.body.shape = "noparts" -> on_exception("KeyError")
          [] resp.body.shape = "text" ->
                LET text == strip(resp.body.text, WS)
                IN  IF text # <<>> THEN [ctl |-> "return", text |-> text]
                    ELSE [ctl |-> "next", text |-> None]
          [] OTHER -> [ctl |-> "next", text |-> None]
    ELSE [ctl |-> "continue", text |-> None]

total_keys_plus == Len(API_KEYS) + 1

\* line 60
total_keys == Len(API_KEYS)

RECURSIVE call_gemini_api_loop(_, _, _)
\* lines 62-106, the loop from iteration `attempt` on, given the responses the
\* service gives to the requests in turn
call_gemini_api_loop(resps, attempt, ki) ==
    IF attempt >= total_keys
    THEN [text |-> None, key_index |-> ki, raised |-> FALSE, requests |-> attempt]
    ELSE LET g == get_next_key(ki)
             o == request_outcome(resps[attempt + 1])
         IN  CASE o.ctl = "return" ->
                    [text |-> o.text, key_index |-> g.key_index, raised |-> FALSE,
                     requests |-> attempt + 1]
               [] o.ctl = "raise" ->
                    [text |-> None, key_index |-> g.key_index, raised |-> TRUE,
                     requests |-> attempt + 1]
               [] OTHER -> call_gemini_api_loop(resps, attempt + 1, g.key_index)

\* lines 58-106
call_gemini_api(resps, ki) == call_gemini_api_loop(resps, 0, ki)

(***************************************************************************)
(* The values the variables have while the part they belong to is not      *)
(* running.                                                                *)
(***************************************************************************)
IdleCaller == [pc |-> "idle", attempt |-> 0, resps |-> <<>>, text |-> None]
IdleThreads == <<>>
IdlePool == <<>>
IdleTr == <<>>
IdleRun == <<>>
IdleParse == <<>>
IdleExt == <<>>
EmptyCache == <<>>
\* lines 34-37
EmptyTracker == [current_topic_bn |-> None, current_topic_en |-> None]

\* module load, lines 19 and 44
InitKeys == API_KEYS \in Pools /\ key_index = 0 /\ keylog = <<>>

(***************************************************************************)
(* SpecCaller: one thread calling call_gemini_api again and again, one     *)
(* loop iteration per step.                                                *)
(***************************************************************************)
InitCaller ==
    /\ InitKeys
    /\ caller = IdleCaller
    /\ threads = IdleThreads /\ pool = IdlePool /\ tr = IdleTr /\ run = IdleRun
    /\ parse = IdleParse /\ ext = IdleExt
    /\ TOPIC_TRANSLATION_CACHE = EmptyCache
    /\ GLOBAL_TOPIC_TRACKER = EmptyTracker

OtherThanCaller ==
    <<threads, pool, TOPIC_TRANSLATION_CACHE, GLOBAL_TOPIC_TRACKER, tr, run, parse, ext>>

\* line 58-60: a call starts
CallerStart ==
    /\ caller.pc \in {"idle", "returned", "raised"}
    /\ key_index + total_keys <= MaxCalls
    /\ caller' = [pc |-> "loop", attempt |-> 0, resps |-> <<>>, text |-> None]
    /\ UNCHANGED <<API_KEYS, key_index, keylog, OtherThanCaller>>

\* lines 62-103: one iteration of the loop
CallerAttempt ==
    /\ caller.pc = "loop"
    /\ caller.attempt < total_keys
    /\ \E resp \in Responses :
        LET g == get_next_key(key_index)
            o == request_outcome(resp)
        IN  /\ key_index' = g.key_index
            /\ keylog' = Append(keylog, g.key)
            /\ caller' = [pc |-> CASE o.ctl = "return" -> "returned"
                                   [] o.ctl = "raise" -> "raised"
                                   [] OTHER -> "loop",
                          attempt |-> IF o.ctl \in {"return", "raise"}
                                      THEN caller.attempt ELSE caller.attempt + 1,
                          resps |-> Append(caller.resps, resp),
                          text |-> o.text]
    /\ UNCHANGED <<API_KEYS, OtherThanCaller>>

\* lines 105-106: the loop ran out
CallerExhausted ==
    /\ caller.pc = "loop"
    /\ caller.attempt >= total_keys
    /\ caller' = [caller EXCEPT !.pc = "returned", !.text = None]
    /\ UNCHANGED <<API_KEYS, key_index, keylog, OtherThanCaller>>

NextCaller == CallerStart \/ CallerAttempt \/ CallerExhausted

SpecCaller == InitCaller /\ [][NextCaller]_vars

\* the claim's reading of a successful response: success status and non-empty text
Success(resp) ==
    /\ resp.exc = "none" /\ resp.status = 200
    /\ resp.body.shape = "text" /\ strip(resp.body.text, WS) # <<>>

PoolPos(k) == CHOOSE i \in 1..Len(API_KEYS) : API_KEYS[i] = k

\* C1: k consecutive sequential calls of get_next_key return each credential of
\* the pool exactly once, in the pool's cyclic order, whatever the outcomes of the
\* requests made with them were.
C1_RotationOrder ==
    LET k == Len(API_KEYS)
    IN  /\ \A i \in 1..(Len(keylog) - 1) :
                PoolPos(keylog[i + 1]) = (PoolPos(keylog[i]) % k) + 1
        /\ \A j \in 1..(Len(keylog) - k + 1) :
                /\ {keylog[i] : i \in j..(j + k - 1)} = Range(API_KEYS)
                /\ \A a, b \in j..(j + k - 1) : keylog[a] = keylog[b] => a = b

\* a window of k calls that starts inside one call_gemini_api and ends inside the
\* next, the second call having failed once and then succeeded
C1_Witness ==
    /\ Len(API_KEYS) = 3
    /\ Len(keylog) >= Len(API_KEYS) + 2
    /\ caller.pc = "returned" /\ caller.text # None
    /\ Len(caller.resps) = 2

\* C3: one call_gemini_api issues at most pool_size requests, returns the text of
\* the first successful response without a further request, returns None exactly
\* when all pool_size attempts failed, and never raises.
C3_ModelCaller ==
    LET n == Len(caller.resps)
    IN  /\ caller.pc # "raised"
        /\ n <= Len(API_KEYS)
        /\ \A i \in 1..(n - 1) : ~Success(caller.resps[i])
        /\ caller.pc = "returned" =>
            /\ caller.text # None <=> (n > 0 /\ Success(caller.resps[n]))
            /\ caller.text # None =>
                    caller.text = strip(caller.resps[n].body.text, WS)
            /\ caller.text = None <=>
                    (n = Len(API_KEYS) /\ \A i \in 1..n : ~Success(caller.resps[i]))

\* all three credentials failed: a rate limit, a timeout, a malformed body
C3_Witness ==
    /\ caller.pc = "returned" /\ caller.text = None
    /\ Len(caller.resps) = 3
    /\ caller.resps[1].status = 429
    /\ caller.resps[2].exc = "Timeout"
    /\ caller.resps[3].body.shape = "noparts"

(***************************************************************************)
(* SpecWorkers: the explanation workers of generate_explanations_only      *)
(* (lines 488-496), each inside one call_gemini_api, interleaved at the    *)
(* reads and writes of key_index.  get_next_key has no lock: line 49 reads *)
(* the cursor, line 50 reads it again and then writes it.                  *)
(***************************************************************************)
NumThreads == 2

Threads == 1..NumThreads

\* the responses a worker's request may get: a failure and a success
WorkerResponses ==
    {[exc |-> "Timeout", status |-> 0, body |-> NoBody],
     [exc |-> "none", status |-> 200, body |-> [shape |-> "text", text |-> <<"A">>]]}

InitWorkers ==
    /\ InitKeys
    /\ threads = [t \in Threads |->
                    [pc |-> "loop", attempt |-> 0, key |-> 0, tmp |-> 0,
                     keys |-> <<>>, text |-> None]]
    /\ caller = IdleCaller /\ pool = IdlePool /\ tr = IdleTr /\ run = IdleRun
    /\ parse = IdleParse /\ ext = IdleExt
    /\ TOPIC_TRANSLATION_CACHE = EmptyCache
    /\ GLOBAL_TOPIC_TRACKER = EmptyTracker

OtherThanThreads ==
    <<caller, pool, TOPIC_TRANSLATION_CACHE, GLOBAL_TOPIC_TRACKER, tr, run, parse, ext>>

\* line 49: key = API_KEYS[key_index % len(API_KEYS)]
WorkerKey(t) ==
    /\ threads[t].pc = "loop"
    /\ threads[t].attempt < total_keys
    /\ threads' = [threads EXCEPT ![t].key = key_at(key_index), ![t].pc = "load"]
    /\ UNCHANGED <<API_KEYS, key_index, keylog, OtherThanThreads>>

\* line 50, the read of key_index += 1
WorkerLoad(t) ==
    /\ threads[t].pc = "load"
    /\ threads' = [threads EXCEPT ![t].tmp = key_index, ![t].pc = "store"]
    /\ UNCHANGED <<API_KEYS, key_index, keylog, OtherThanThreads>>

\* line 50, the write of key_index += 1, and line 51
WorkerStore(t) ==
    /\ threads[t].pc = "store"
    /\ key_index' = key_index_next(threads[t].tmp)
    /\ keylog' = Append(keylog, threads[t].key)
    /\ threads' = [threads EXCEPT ![t].keys = Append(@, threads[t].key),
                                   ![t].pc = "request"]
    /\ UNCHANGED <<API_KEYS, OtherThanThreads>>

\* lines 64-103: the request and what the loop does with its response
WorkerRequest(t) ==
    /\ threads[t].pc = "request"
    /\ \E resp \in WorkerResponses :
        LET o == request_outcome(resp)
        IN  threads' = [threads EXCEPT
                ![t].pc = IF o.ctl = "return" THEN "done" ELSE "loop",
                ![t].attempt = IF o.ctl = "return" THEN @ ELSE @ + 1,
                ![t].text = o.text]
    /\ UNCHANGED <<API_KEYS, key_index, keylog, OtherThanThreads>>

\* lines 105-106
WorkerExhausted(t) ==
    /\ threads[t].pc = "loop"
    /\ threads[t].attempt >= total_keys
    /\ threads' = [threads EXCEPT ![t].pc = "done", ![t].text = None]
    /\ UNCHANGED <<API_KEYS, key_index, keylog, OtherThanThreads>>

NextWorkers ==
    \E t \in Threads :
        \/ WorkerKey(t)
        \/ WorkerLoad(t)
        \/ WorkerStore(t)
        \/ WorkerRequest(t)
        \/ WorkerExhausted(t)

SpecWorkers == InitWorkers /\ [][NextWorkers]_vars

\* C2: no credential-selection step is lost: whenever no worker is inside
\* get_next_key, the cursor has advanced by the number of completed calls.
C2_NoLostStep ==
    (\A t \in Threads : threads[t].pc \notin {"load", "store"})
        => key_index = Len(keylog)

\* C16: within one call_gemini_api no credential is used for two attempts, also
\* when another worker takes credentials between the attempts.
C16_NoCredentialTwice ==
    \A t \in Threads :
        \A i, j \in 1..Len(threads[t].keys) :
            (i # j) => (threads[t].keys[i] # threads[t].keys[j])

(***************************************************************************)
(* Translator: translate_topic_to_english.                                 *)
(***************************************************************************)
\* the token "sadharon" stands for the Bengali default label of lines 110, 404-417
GENERAL_BN == <<"sadharon">>
GENERAL_EN == <<"General">>
SELF_TEST == <<"Self", " ", "Test">>
CONTINUE == <<"CONTINUE">>
\* two topic headers that are none of the fixed labels
TOPIC_1 == <<"topic1">>
TOPIC_2 == <<"topic2">>

\* what the service may answer to a translation prompt: a failure, a plain
\* label, a quoted label, nothing but quotes
TranslationTexts ==
    {<<"\"", "Algebra", "\"">>, <<"'", "Vectors", "'", "\n">>, <<"\"", "\"">>}

\* the responses to the requests of one call_gemini_api: `failed` timeouts, then
\* the text (responses past the first text are never asked for)
ResponseRun(failed, text) ==
    [i \in 1..Len(API_KEYS) |->
        IF i <= failed THEN [exc |-> "Timeout", status |-> 0, body |-> NoBody]
        ELSE [exc |-> "none", status |-> 200,
              body |-> [shape |-> "text", text |-> text]]]

ResponseRuns(texts) ==
    {ResponseRun(failed, text) : failed \in 0..Len(API_KEYS), text \in texts}

\* line 135
strip_quotes(result) == strip(strip(strip(result, WS), {"\""}), {"'"})

\* lines 108-138 with the default label cached at line 138
translate_caching_default(bengali_topic, cache, resps, ki) ==
    IF ~Truthy(bengali_topic) \/ bengali_topic = GENERAL_BN
    THEN [ret |-> GENERAL_EN, cache |-> cache, key_index |-> ki, mc |-> "none",
          raised |-> FALSE]
    ELSE IF bengali_topic = SELF_TEST
    THEN [ret |-> SELF_TEST, cache |-> cache, key_index |-> ki, mc |-> "none",
          raised |-> FALSE]
    ELSE IF bengali_topic \in DOMAIN cache
    THEN [ret |-> cache[bengali_topic], cache |-> cache, key_index |-> ki,
          mc |-> "none", raised |-> FALSE]
    ELSE LET r == call_gemini_api(resps, ki)
         IN  IF Truthy(r.text)
             THEN [ret |-> strip_quotes(r.text),
                   cache |-> (bengali_topic :> strip_quotes(r.text)) @@ cache,
                   key_index |-> r.key_index, mc |-> "ok", raised |-> r.raised]
             ELSE [ret |-> GENERAL_EN,
                   cache |-> (bengali_topic :> GENERAL_EN) @@ cache,
                   key_index |-> r.key_index, mc |-> "absent", raised |-> r.raised]

\* lines 108-138 without the store of line 136
translate_not_caching(bengali_topic, cache, resps, ki) ==
    IF ~Truthy(bengali_topic) \/ bengali_topic = GENERAL_BN
    THEN [ret |-> GENERAL_EN, cache |-> cache, key_index |-> ki, mc |-> "none",
          raised |-> FALSE]
    ELSE IF bengali_topic = SELF_TEST
    THEN [ret |-> SELF_TEST, cache |-> cache, key_index |-> ki, mc |-> "none",
          raised |-> FALSE]
    ELSE IF bengali_topic \in DOMAIN cache
    THEN [ret |-> cache[bengali_topic], cache |-> cache, key_index |-> ki,
          mc |-> "none", raised |-> FALSE]
    ELSE LET r == call_gemini_api(resps, ki)
         IN  IF Truthy(r.text)
             THEN [ret |-> strip_quotes(r.text), cache |-> cache,
                   key_index |-> r.key_index, mc |-> "ok", raised |-> r.raised]
             ELSE [ret |-> GENERAL_EN, cache |-> cache,
                   key_index |-> r.key_index, mc |-> "absent", raised |-> r.raised]

\* lines 108-138.  mc tells whether the Model Caller was invoked and what it
\* gave: "none" (not invoked), "ok" (text), "absent" (None)
translate_topic_to_english(bengali_topic, cache, resps, ki) ==
    IF ~Truthy(bengali_topic) \/ bengali_topic = GENERAL_BN
    THEN [ret |-> GENERAL_EN, cache |-> cache, key_index |-> ki, mc |-> "none",
          raised |-> FALSE]
    ELSE IF bengali_topic = SELF_TEST
    THEN [ret |-> SELF_TEST, cache |-> cache, key_index |-> ki, mc |-> "none",
          raised |-> FALSE]
    ELSE IF bengali_topic \in DOMAIN cache
    THEN [ret |-> cache[bengali_topic], cache |-> cache, key_index |-> ki,
          mc |-> "none", raised |-> FALSE]
    ELSE LET r == call_gemini_api(resps, ki)
         IN  IF Truthy(r.text)
             THEN [ret |-> strip_quotes(r.text),
                   cache |-> (bengali_topic :> strip_quotes(r.text)) @@ cache,
                   key_index |-> r.key_index, mc |-> "ok", raised |-> r.raised]
             ELSE [ret |-> GENERAL_EN, cache |-> cache,
                   key_index |-> r.key_index, mc |-> "absent", raised |-> r.raised]

(***************************************************************************)
(* SpecTranslate: a run of translate_topic_to_english calls on any labels. *)
(* tr.mcs[l] lists the outcomes of the Model Caller invocations made for   *)
(* label l, tr.first[l] is what the call that got a text for l returned.   *)
(***************************************************************************)
MaxTranslations == 4

TranslateArgs == {None, <<>>, GENERAL_BN, SELF_TEST, TOPIC_1, TOPIC_2}

InitTr ==
    [calls |-> 0, arg |-> None, ret |-> None, mc |-> "none", raised |-> FALSE,
     mcs |-> [l \in TranslateArgs |-> <<>>],
     first |-> [l \in TranslateArgs |-> None]]

InitTranslate ==
    /\ InitKeys
    /\ TOPIC_TRANSLATION_CACHE = EmptyCache
    /\ tr = InitTr
    /\ caller = IdleCaller /\ threads = IdleThreads /\ pool = IdlePool /\ run = IdleRun
    /\ parse = IdleParse /\ ext = IdleExt
    /\ GLOBAL_TOPIC_TRACKER = EmptyTracker

\* the bookkeeping of one translate_topic_to_english call with result r
tr_after(t, bengali_topic, r) ==
    [calls |-> t.calls + 1, arg |-> bengali_topic, ret |-> r.ret, mc |-> r.mc,
     raised |-> r.raised,
     mcs |-> IF r.mc = "none" THEN t.mcs
             ELSE [t.mcs EXCEPT ![bengali_topic] = Append(@, r.mc)],
     first |-> IF r.mc = "ok" /\ t.first[bengali_topic] = None
               THEN [t.first EXCEPT ![bengali_topic] = r.ret] ELSE t.first]

Translate ==
    /\ tr.calls < MaxTranslations
    /\ \E bengali_topic \in TranslateArgs :
       \E resps \in ResponseRuns(TranslationTexts) :
        LET r == translate_topic_to_english(bengali_topic, TOPIC_TRANSLATION_CACHE,
                                            resps, key_index)
        IN  /\ TOPIC_TRANSLATION_CACHE' = r.cache
            /\ key_index' = r.key_index
            /\ tr' = tr_after(tr, bengali_topic, r)
    /\ UNCHANGED <<API_KEYS, keylog, caller, threads, pool, GLOBAL_TOPIC_TRACKER, run,
                   parse, ext>>

NextTranslate == Translate

SpecTranslate == InitTranslate /\ [][NextTranslate]_vars

\* C4 as stated: for every sequence of calls and every outcome of the Model Caller,
\* absence on the first call included, at most one Model Caller invocation is made
\* for any one label.
C4_AtMostOneInvocation ==
    \A l \in TranslateArgs : Len(tr.mcs[l]) <= 1

\* C4 amended: once a Model Caller invocation for a label has returned text, no
\* later call for that label invokes the Model Caller and each returns the value
\* cached then; only invocations that signalled absence are repeated.
C4_CachedOnce ==
    \A l \in TranslateArgs :
        /\ \A i \in 1..(Len(tr.mcs[l]) - 1) : tr.mcs[l][i] = "absent"
        /\ (tr.arg = l /\ tr.first[l] # None) => tr.ret = tr.first[l]

\* a label whose first translation failed and whose second succeeded is served from
\* the cache by the third call
C4_Witness ==
    /\ tr.calls = 3 /\ tr.arg = TOPIC_1 /\ tr.mc = "none"
    /\ tr.mcs[TOPIC_1] = <<"absent", "ok">>
    /\ tr.ret = <<"Algebra">>

\* C5: when the Model Caller signals absence the Translator returns "General",
\* does not raise and leaves the Translation Cache as it was.
C5_AbsenceDefault ==
    [][(tr'.calls = tr.calls + 1 /\ tr'.mc = "absent")
        => /\ tr'.ret = GENERAL_EN
           /\ ~tr'.raised
           /\ TOPIC_TRANSLATION_CACHE' = TOPIC_TRANSLATION_CACHE]_vars

\* a failed translation of one label while another label is cached
C5_Witness ==
    /\ tr.mc = "absent" /\ tr.arg = TOPIC_1 /\ tr.ret = GENERAL_EN
    /\ DOMAIN TOPIC_TRANSLATION_CACHE = {TOPIC_2}

(***************************************************************************)
(* Explanation Generator: generate_explanation.  A JSON value is           *)
(* [type, text]: its type and what str() makes of it.  The value           *)
(* safe_json_parse returns (line 316) is None or a dict: a function from   *)
(* the keys present to their values.                                       *)
(***************************************************************************)
\* the number of characters of a token
chars(tok) ==
    CASE tok = "sothik" -> 4
      [] tok = "uttor:" -> 6
      [] tok = "explanation" -> 11
      [] OTHER -> 1

RECURSIVE len(_)
len(s) == IF s = <<>> THEN 0 ELSE chars(Head(s)) + len(Tail(s))

\* str.upper() on one character
upper(c) ==
    CASE c = "a" -> "A" [] c = "b" -> "B" [] c = "c" -> "C" [] c = "d" -> "D"
      [] OTHER -> c

\* the literal of lines 294, 324 and 342 up to the answer letter
SHORT_PREFIX == <<"sothik", " ", "uttor:", " ">>

\* lines 319-320
required_fields ==
    <<"short", "detailed", "mathematical_derivation", "key_concept",
      "common_mistakes", "real_world_application", "memory_tip">>

Str(text) == [type |-> "str", text |-> text]
Num(text) == [type |-> "num", text |-> text]
Null == [type |-> "null", text |-> <<"N", "o", "n", "e">>]

\* bool(value)
truthy(v) ==
    CASE v.type = "str" -> v.text # <<>>
      [] v.type = "num" -> v.text # <<"0">>
      [] OTHER -> FALSE

\* line 322
field_ok(parsed_json, field) ==
    /\ field \in DOMAIN parsed_json
    /\ truthy(parsed_json[field])
    /\ len(strip(parsed_json[field].text, WS)) > 5

fallback_lower(correct_answer) ==
    [f \in Range(required_fields) |->
        IF f = "short" THEN Str(SHORT_PREFIX \o <<correct_answer>>)
        ELSE Str(<<"explanation">>)]

\* lines 341-349
fallback_explanation(correct_answer) ==
    [f \in Range(required_fields) |->
        IF f = "short" THEN Str(SHORT_PREFIX \o <<upper(correct_answer)>>)
        ELSE Str(<<"explanation">>)]

\* lines 313-335: one attempt, given what call_gemini_api returned and what
\* safe_json_parse makes of it
explanation_attempt(result, parsed_json, correct_answer) ==
    IF ~Truthy(result) THEN [ctl |-> "retry", ret |-> None]
    ELSE IF parsed_json = None \/ DOMAIN parsed_json = {}
    THEN [ctl |-> "retry", ret |-> None]
    ELSE IF \A i \in 1..Len(required_fields) : field_ok(parsed_json, required_fields[i])
    THEN IF parsed_json["short"].type # "str"
         THEN [ctl |-> "raise", ret |-> None]      \* line 324: no method strip
         ELSE IF startswith(strip(parsed_json["short"].text, WS),
                            SHORT_PREFIX \o <<upper(correct_answer)>>)
         THEN [ctl |-> "return", ret |-> parsed_json]
         ELSE [ctl |-> "retry", ret |-> None]
    ELSE [ctl |-> "retry", ret |-> None]

\* line 311
max_retries == 3

(***************************************************************************)
(* The parsed objects the attempts are tried on: every field a long text   *)
(* but "short", which is any of ShortValues; a well-formed "short" with    *)
(* one more field that is any of OddValues, or with one field missing; a   *)
(* number for "short" with an empty field beside it.                       *)
(***************************************************************************)
ShortValues(correct_answer) ==
    {Str(SHORT_PREFIX \o <<upper(correct_answer), " ", "explanation">>),
     Str(<<" ">> \o SHORT_PREFIX \o <<upper(correct_answer), " ", "explanation">>),
     Str(SHORT_PREFIX \o <<"Z">>),
     Str(<<"explanation">>),
     Str(<<>>),
     Num(<<"1", "2", "3", "4", "5", "6">>),
     Null}

OddValues ==
    {Str(<<" ", "x", "x", "x", "x", "x", " ">>), Str(<<>>),
     Num(<<"1", "2", "3", "4", "5", "6">>), Num(<<"0">>), Null}

OddFields == {"detailed", "memory_tip"}

ParsedObjects(correct_answer) ==
    LET long == Str(<<"explanation">>)
        good == Str(SHORT_PREFIX \o <<upper(correct_answer), " ", "explanation">>)
        base(sv) == [f \in Range(required_fields) |-> IF f = "short" THEN sv ELSE long]
    IN  {base(sv) : sv \in ShortValues(correct_answer)}
        \cup {[base(good) EXCEPT ![f] = ov] : f \in OddFields, ov \in OddValues}
        \cup {[g \in Range(required_fields) \ {f} |-> base(good)[g]] :
                f \in Range(required_fields)}
        \cup {[base(Num(<<"1", "2", "3", "4", "5", "6">>)) EXCEPT ![f] = Str(<<>>)] :
                f \in OddFields}

\* what safe_json_parse may return on the text of an explanation response
ParseResults(correct_answer) == {None, <<>>} \cup ParsedObjects(correct_answer)

(***************************************************************************)
(* SpecExplain: generate_explanations_only on a list of questions, one     *)
(* task per question run by the executor's workers, one attempt of         *)
(* generate_explanation per step; the main thread collects the futures as  *)
(* they complete and then assembles the list.                              *)
(***************************************************************************)
MaxQuestions == 2

\* line 28
MAX_INNER_WORKERS == 4

\* correct_answer_key of the questions: the first character of the answer line,
\* lower-cased (line 386); question i of a list has letter AnswerLetter(i)
AnswerLetter(i) == IF i % 2 = 1 THEN "b" ELSE "("

QuestionLists ==
    {[i \in 1..n |-> AnswerLetter(i)] : n \in 0..MaxQuestions}

NewTask == [pc |-> "pending", attempt |-> 0, calls |-> 0, ret |-> None]

\* lines 476-496
NewPool(questions) ==
    [pc |-> IF Len(questions) = 0 THEN "done" ELSE "collect",
     questions |-> questions,
     tasks |-> [i \in 1..Len(questions) |-> NewTask],
     collected |-> {},
     explanation_results |-> [i \in 1..Len(questions) |-> None],
     final |-> <<>>]

\* the pool holds one credential here, so that every call_gemini_api makes one
\* request; the workers' races on key_index are those of SpecWorkers
InitExplain ==
    /\ API_KEYS = <<1>> /\ key_index = 0 /\ keylog = <<>>
    /\ \E questions \in QuestionLists : pool = NewPool(questions)
    /\ caller = IdleCaller /\ threads = IdleThreads /\ tr = IdleTr /\ run = IdleRun
    /\ parse = IdleParse /\ ext = IdleExt
    /\ TOPIC_TRANSLATION_CACHE = EmptyCache
    /\ GLOBAL_TOPIC_TRACKER = EmptyTracker

OtherThanPool ==
    <<API_KEYS, keylog, caller, threads, TOPIC_TRANSLATION_CACHE, GLOBAL_TOPIC_TRACKER,
      tr, run, parse, ext>>

Running(p) == {i \in 1..Len(p.tasks) : p.tasks[i].pc = "running"}

\* a worker of the executor takes the oldest task waiting (line 488)
TaskStart(i) ==
    /\ pool.pc = "collect"
    /\ pool.tasks[i].pc = "pending"
    /\ \A j \in 1..(i - 1) : pool.tasks[j].pc # "pending"
    /\ Cardinality(Running(pool)) < MAX_INNER_WORKERS
    /\ pool' = [pool EXCEPT !.tasks[i].pc = "running"]
    /\ UNCHANGED <<key_index, OtherThanPool>>

\* lines 312-338: one attempt of generate_explanation for question i
TaskAttempt(i) ==
    /\ pool.pc = "collect"
    /\ pool.tasks[i].pc = "running"
    /\ pool.tasks[i].attempt < max_retries
    /\ \E resps \in ResponseRuns({<<"json">>}) :
       \E parsed_json \in ParseResults(pool.questions[i]) :
        LET r == call_gemini_api(resps, key_index)
            a == explanation_attempt(r.text, parsed_json, pool.questions[i])
        IN  /\ key_index' = r.key_index
            /\ pool' = [pool EXCEPT
                    !.tasks[i].calls = @ + 1,
                    !.tasks[i].pc = CASE a.ctl = "return" -> "returned"
                                      [] a.ctl = "raise" -> "raised"
                                      [] OTHER -> "running",
                    !.tasks[i].attempt = IF a.ctl = "retry" THEN @ + 1 ELSE @,
                    !.tasks[i].ret = a.ret]
    /\ UNCHANGED OtherThanPool

\* lines 340-349: the attempts are used up
TaskFallback(i) ==
    /\ pool.pc = "collect"
    /\ pool.tasks[i].pc = "running"
    /\ pool.tasks[i].attempt >= max_retries
    /\ pool' = [pool EXCEPT !.tasks[i].pc = "returned",
                            !.tasks[i].ret = fallback_explanation(pool.questions[i])]
    /\ UNCHANGED <<key_index, OtherThanPool>>

\* lines 498-504: as_completed hands over a finished future
Collect(i) ==
    /\ pool.pc = "collect"
    /\ i \notin pool.collected
    /\ pool.tasks[i].pc \in {"returned", "raised"}
    /\ pool' = [pool EXCEPT
            !.collected = @ \cup {i},
            !.explanation_results[i] =
                IF pool.tasks[i].pc = "returned" THEN pool.tasks[i].ret ELSE @]
    /\ UNCHANGED <<key_index, OtherThanPool>>

\* lines 507-511 with the results taken from the far end of the list
AssembleReversed ==
    /\ pool.pc = "collect"
    /\ pool.collected = 1..Len(pool.questions)
    /\ pool' = [pool EXCEPT
            !.pc = "done",
            !.final = [i \in 1..Len(pool.questions) |->
                        [correct_answer_key |-> pool.questions[i],
                         explanation |->
                            pool.explanation_results[Len(pool.questions) + 1 - i]]]]
    /\ UNCHANGED <<key_index, OtherThanPool>>

\* lines 507-511
Assemble ==
    /\ pool.pc = "collect"
    /\ pool.collected = 1..Len(pool.questions)
    /\ pool' = [pool EXCEPT
            !.pc = "done",
            !.final = [i \in 1..Len(pool.questions) |->
                        [correct_answer_key |-> pool.questions[i],
                         explanation |-> pool.explanation_results[i]]]]
    /\ UNCHANGED <<key_index, OtherThanPool>>

NextExplain ==
    \/ \E i \in 1..Len(pool.questions) : TaskStart(i)
    \/ \E i \in 1..Len(pool.questions) : TaskAttempt(i)
    \/ \E i \in 1..Len(pool.questions) : TaskFallback(i)
    \/ \E i \in 1..Len(pool.questions) : Collect(i)
    \/ Assemble

SpecExplain == InitExplain /\ [][NextExplain]_vars

\* C8 as stated: generate_explanation never raises, calls the Model Caller at most
\* 3 times, and every record leaving generate_explanations_only has an explanation.
C8_AlwaysExplained ==
    /\ \A i \in 1..Len(pool.questions) :
            /\ pool.tasks[i].pc # "raised"
            /\ pool.tasks[i].calls <= 3
    /\ pool.pc = "done" =>
            \A i \in 1..Len(pool.final) : pool.final[i].explanation # None

IsFallback(t) == t.pc = "returned" /\ t.attempt >= max_retries

AllSevenNonEmpty(e) ==
    \A i \in 1..Len(required_fields) :
        /\ required_fields[i] \in DOMAIN e
        /\ e[required_fields[i]].type = "str"
        /\ e[required_fields[i]].text # <<>>

\* what C9 says of a task that fell back, whatever made its three attempts fail
FallbackAsClaimed ==
    \A i \in 1..Len(pool.questions) :
        IsFallback(pool.tasks[i]) =>
            /\ pool.tasks[i].ret["short"] =
                    Str(SHORT_PREFIX \o <<upper(pool.questions[i])>>)
            /\ AllSevenNonEmpty(pool.tasks[i].ret)
            /\ \A j \in 1..Len(pool.questions) :
                    IsFallback(pool.tasks[j]) =>
                        \A f \in DOMAIN pool.tasks[i].ret :
                            (f # "short" \/ pool.questions[i] = pool.questions[j])
                                => pool.tasks[j].ret[f] = pool.tasks[i].ret[f]

Computed(i) == IF pool.tasks[i].pc = "returned" THEN pool.tasks[i].ret ELSE None

\* the result of every future handed over sits in the slot of its own question,
\* and the assembled list is the input list in input order, each question with
\* what its own task computed
AttachedInOrder ==
    /\ \A i \in 1..Len(pool.questions) :
          pool.explanation_results[i] = IF i \in pool.collected THEN Computed(i) ELSE None
    /\ (pool.pc = "done")
          => /\ Len(pool.final) = Len(pool.questions)
             /\ \A i \in 1..Len(pool.questions) :
                   /\ pool.final[i].correct_answer_key = pool.questions[i]
                   /\ pool.final[i].explanation = Computed(i)

TopicAndCacheUntouched ==
    /\ GLOBAL_TOPIC_TRACKER' = GLOBAL_TOPIC_TRACKER
    /\ TOPIC_TRANSLATION_CACHE' = TOPIC_TRANSLATION_CACHE

\* C23 as stated: no step of the parallel section touches shared mutable state
\* (Topic State, the Translation Cache, the credential cursor), and the
\* explanation computed for question i is attached to question i, the output
\* list keeping the input order, in every completion order.
C23_NoSharedState ==
    /\ []AttachedInOrder
    /\ [][TopicAndCacheUntouched /\ key_index' = key_index]_vars

\* C23 amended: no step of the parallel section changes Topic State or the
\* Translation Cache (the credential cursor is advanced by every request of a
\* worker), and the explanation computed for question i is attached to question
\* i, the output list keeping the input order, in every completion order.
C23_TopicAndCacheKept ==
    /\ []AttachedInOrder
    /\ [][TopicAndCacheUntouched]_vars

\* the future of question 2 was handed over while the task of question 1 is
\* still running: its record sits in slot 2, slot 1 is empty, and the workers
\* have advanced the cursor
C23_Witness ==
    /\ pool.pc = "collect"
    /\ Len(pool.questions) = 2
    /\ pool.collected = {2}
    /\ pool.tasks[1].pc = "running"
    /\ pool.tasks[2].pc = "returned"
    /\ pool.explanation_results[1] = None
    /\ pool.explanation_results[2] = pool.tasks[2].ret
    /\ key_index > 0

(***************************************************************************)
(* Topic Tracker: the topic logic of extract_structured_questions.         *)
(***************************************************************************)
Tracker(bn, en) == [current_topic_bn |-> bn, current_topic_en |-> en]

is_continuation_never(topic_str) == topic_str = <<"continue">>

\* line 397
is_continuation(topic_str) == topic_str = CONTINUE

on_self_test_bn_only(tracker) ==
    IF tracker.current_topic_bn # SELF_TEST
    THEN Tracker(SELF_TEST, tracker.current_topic_en)
    ELSE tracker

\* lines 400-403
on_self_test(tracker) ==
    IF tracker.current_topic_bn # SELF_TEST
    THEN Tracker(SELF_TEST, SELF_TEST)
    ELSE tracker

\* lines 396-413.  translated: whether the Translator was called; mc: what its
\* Model Caller invocation gave, if it made one
topic_logic(topic_str, tracker, cache, resps, ki) ==
    LET same == [tracker |-> tracker, cache |-> cache, key_index |-> ki,
                 translated |-> FALSE, mc |-> "none"]
    IN  IF ~Truthy(topic_str) THEN same
        ELSE IF is_continuation(topic_str) THEN same
        ELSE IF topic_str = SELF_TEST
        THEN [same EXCEPT !.tracker = on_self_test(tracker)]
        ELSE IF topic_str \notin {GENERAL_BN, GENERAL_EN}
        THEN IF tracker.current_topic_bn # topic_str
             THEN LET t == translate_topic_to_english(topic_str, cache, resps, ki)
                  IN  [tracker |-> Tracker(topic_str, t.ret), cache |-> t.cache,
                       key_index |-> t.key_index, translated |-> TRUE, mc |-> t.mc]
             ELSE same
        ELSE IF ~Truthy(tracker.current_topic_bn)
        THEN [same EXCEPT !.tracker = Tracker(GENERAL_BN, GENERAL_EN)]
        ELSE same

default_never(tracker) == tracker

\* lines 415-418
default_if_unset(tracker) ==
    IF ~Truthy(tracker.current_topic_bn) THEN Tracker(GENERAL_BN, GENERAL_EN)
    ELSE tracker

\* lines 396-418 without the comparison of line 405
resolve_topic_forgetful(topic_str, tracker, cache, resps, ki) ==
    LET r == topic_logic(topic_str, Tracker(None, tracker.current_topic_en),
                         cache, resps, ki)
    IN  [r EXCEPT !.tracker = default_if_unset(r.tracker)]

\* lines 396-418
resolve_topic(topic_str, tracker, cache, resps, ki) ==
    LET r == topic_logic(topic_str, tracker, cache, resps, ki)
    IN  [r EXCEPT !.tracker = default_if_unset(r.tracker)]

(***************************************************************************)
(* Raw extraction blocks.  A block is the topic marker of its TOPIC: line  *)
(* (None without one) and the keys its other lines put into q_data.        *)
(***************************************************************************)
\* line 390
required == {"number", "text", "opt_a", "opt_b", "opt_c", "opt_d", "answer"}

Markers == {None, CONTINUE, SELF_TEST, GENERAL_BN, TOPIC_1, TOPIC_2}

Blocks ==
    {[topic |-> m, keys |-> ks] :
        m \in Markers, ks \in {required, required \ {"answer"}}}

complete_without_answer(block) == (required \ {"answer"}) \subseteq block.keys

complete_always(block) == TRUE

\* line 391
complete(block) == required \subseteq block.keys

\* whether structuring the block calls the Translator and so needs the responses
\* of the service
MayTranslate(block) == complete(block) /\ block.topic \in {TOPIC_1, TOPIC_2}

\* what the service answers to the translation prompt in the folder run
LabelTexts == {<<"\"", "Algebra", "\"">>}

\* lines 446-463: the record of block number blk of image number img; marker
\* remembers the block's topic marker, which the program's record does not keep
question_obj(img, blk, block, tracker) ==
    [id |-> <<img, blk>>, marker |-> block.topic,
     topic_bn |-> tracker.current_topic_bn, topic_en |-> tracker.current_topic_en]

RECURSIVE merge_reversed(_)
merge_reversed(json_data_list) ==
    IF json_data_list = <<>> THEN <<>>
    ELSE merge_reversed(Tail(json_data_list)) \o Head(json_data_list)

RECURSIVE merge_json_files(_)
\* lines 553-556: all_questions, the lists of json_data_list one after the other
merge_json_files(json_data_list) ==
    IF json_data_list = <<>> THEN <<>>
    ELSE Head(json_data_list) \o merge_json_files(Tail(json_data_list))

(***************************************************************************)
(* Spec: process_folder_with_breaks on one folder of images, from the      *)
(* start of the process.  Absent files and a None json_data are <<>>: the  *)
(* program never writes an empty list.  The credential cursor is not       *)
(* followed here: a Model Caller invocation is what it returns, and the    *)
(* pool holds one credential.  run.folder is the position of the folder in *)
(* the loop of process_all_folders, run.attempts lists the images          *)
(* process_image was called on since the folder run started, and           *)
(* run.prev_topic is the pair (prev_topic_bn, prev_topic_en) of the latest *)
(* call of process_image.  run.produced[i] is what the latest call of      *)
(* process_image on image i gave: its records, or <<>> when it returned    *)
(* None or raised.                                                         *)
(***************************************************************************)
MaxImages == 2
MaxBlocks == 3

\* the batch_size the folder is run with: after every image, or the default of
\* line 622, which no folder of the model reaches
BatchSizes == {1, 20}

NoProgress ==
    [exists |-> FALSE, processed |-> 0, total |-> 0, topic_tracker |-> EmptyTracker]

InitRun(n, bs) ==
    [pc |-> "start", folder |-> 1,
     images |-> n, batch_size |-> bs, start_index |-> 0, idx |-> 0,
     all_json_data |-> <<>>, questions |-> <<>>, blocks |-> 0, attempts |-> <<>>,
     prev_topic |-> EmptyTracker,
     produced |-> [i \in 1..n |-> <<>>],
     nblk |-> [i \in 1..n |-> 0],
     tcalls |-> [i \in 1..n |-> 0],
     mcalls |-> [i \in 1..n |-> 0],
     out |-> [i \in 1..n |-> <<>>],
     progress |-> NoProgress,
     full |-> <<>>]

Init ==
    /\ API_KEYS = <<1>> /\ key_index = 0 /\ keylog = <<>>
    /\ TOPIC_TRANSLATION_CACHE = EmptyCache
    /\ GLOBAL_TOPIC_TRACKER = EmptyTracker
    /\ \E n \in 1..MaxImages, bs \in BatchSizes : run = InitRun(n, bs)
    /\ caller = IdleCaller /\ threads = IdleThreads /\ pool = IdlePool /\ tr = IdleTr
    /\ parse = IdleParse /\ ext = IdleExt

OtherThanRun ==
    <<API_KEYS, key_index, keylog, caller, threads, pool, tr, parse, ext>>

\* lines 641-673 without the reset of lines 657-661
StartFolderStale ==
    /\ run.pc = "start"
    /\ IF run.progress.exists
       THEN IF run.progress.processed >= run.images
            THEN /\ run' = [run EXCEPT !.pc = "done",
                                       !.start_index = run.progress.processed]
                 /\ UNCHANGED GLOBAL_TOPIC_TRACKER
            ELSE /\ run' = [run EXCEPT !.pc = "image",
                                       !.start_index = run.progress.processed,
                                       !.idx = run.progress.processed,
                                       !.all_json_data = <<>>, !.attempts = <<>>]
                 /\ GLOBAL_TOPIC_TRACKER' = run.progress.topic_tracker
       ELSE /\ run' = [run EXCEPT !.pc = "image", !.start_index = 0, !.idx = 0,
                                  !.all_json_data = <<>>, !.attempts = <<>>]
            /\ UNCHANGED GLOBAL_TOPIC_TRACKER
    /\ UNCHANGED <<TOPIC_TRANSLATION_CACHE, OtherThanRun>>

StartFolderAnew ==
    /\ run.pc = "start"
    /\ run' = [run EXCEPT !.pc = "image", !.start_index = 0, !.idx = 0,
                          !.all_json_data = <<>>, !.attempts = <<>>]
    /\ GLOBAL_TOPIC_TRACKER' = EmptyTracker
    /\ UNCHANGED <<TOPIC_TRANSLATION_CACHE, OtherThanRun>>

\* lines 641-673
StartFolder ==
    /\ run.pc = "start"
    /\ IF run.progress.exists
       THEN IF run.progress.processed >= run.images
            THEN /\ run' = [run EXCEPT !.pc = "done",
                                       !.start_index = run.progress.processed]
                 /\ UNCHANGED GLOBAL_TOPIC_TRACKER
            ELSE /\ run' = [run EXCEPT !.pc = "image",
                                       !.start_index = run.progress.processed,
                                       !.idx = run.progress.processed,
                                       !.all_json_data = <<>>, !.attempts = <<>>]
                 /\ GLOBAL_TOPIC_TRACKER' = run.progress.topic_tracker
       ELSE /\ run' = [run EXCEPT !.pc = "image", !.start_index = 0, !.idx = 0,
                                  !.all_json_data = <<>>, !.attempts = <<>>]
            /\ GLOBAL_TOPIC_TRACKER' = EmptyTracker
    /\ UNCHANGED <<TOPIC_TRANSLATION_CACHE, OtherThanRun>>

\* lines 675-683, 520-531: the extraction call of process_image
ExtractText ==
    /\ run.pc = "image"
    /\ run.idx < run.images
    /\ \E resps \in ResponseRuns({<<"raw">>}) :
        LET raw_text == call_gemini_api(resps, key_index).text
        IN  IF ~Truthy(raw_text)
            THEN run' = [run EXCEPT !.pc = "progress", !.questions = <<>>,
                                    !.produced[run.idx + 1] = <<>>,
                                    !.prev_topic = GLOBAL_TOPIC_TRACKER,
                                    !.attempts = Append(@, run.idx + 1)]
            ELSE run' = [run EXCEPT !.pc = "blocks", !.questions = <<>>,
                                    !.prev_topic = GLOBAL_TOPIC_TRACKER,
                                    !.attempts = Append(@, run.idx + 1)]
    /\ UNCHANGED <<TOPIC_TRANSLATION_CACHE, GLOBAL_TOPIC_TRACKER, OtherThanRun>>

ExtractRaisesAbort ==
    /\ run.pc = "image"
    /\ run.idx < run.images
    /\ run' = [run EXCEPT !.pc = "aborted", !.attempts = Append(@, run.idx + 1),
                          !.produced[run.idx + 1] = <<>>]
    /\ UNCHANGED <<TOPIC_TRANSLATION_CACHE, GLOBAL_TOPIC_TRACKER, OtherThanRun>>

\* line 216 raises (the image cannot be read); lines 714-717 catch it and the loop
\* goes on with the next image
ExtractRaises ==
    /\ run.pc = "image"
    /\ run.idx < run.images
    /\ run' = [run EXCEPT !.idx = @ + 1, !.attempts = Append(@, run.idx + 1),
                          !.produced[run.idx + 1] = <<>>]
    /\ UNCHANGED <<TOPIC_TRANSLATION_CACHE, GLOBAL_TOPIC_TRACKER, OtherThanRun>>

\* the topic logic of lines 396-418 put before the test of line 391
StructureBlockEager ==
    /\ run.pc = "blocks"
    /\ run.blocks < MaxBlocks
    /\ \E block \in Blocks :
       \E resps \in IF MayTranslate(block) THEN ResponseRuns(LabelTexts)
                    ELSE {ResponseRun(0, <<>>)} :
        LET img == run.idx + 1
            blk == run.nblk[img] + 1
            r == resolve_topic(block.topic, GLOBAL_TOPIC_TRACKER,
                               TOPIC_TRANSLATION_CACHE, resps, key_index)
        IN  /\ GLOBAL_TOPIC_TRACKER' = r.tracker
            /\ TOPIC_TRANSLATION_CACHE' = r.cache
            /\ run' = [run EXCEPT
                   !.nblk[img] = blk, !.blocks = @ + 1,
                   !.tcalls[img] = IF r.translated THEN @ + 1 ELSE @,
                   !.mcalls[img] = IF r.mc # "none" THEN @ + 1 ELSE @,
                   !.questions = IF complete(block)
                                 THEN Append(@, question_obj(img, blk, block, r.tracker))
                                 ELSE @]
    /\ UNCHANGED OtherThanRun

\* lines 358-470: one block of the raw text
StructureBlock ==
    /\ run.pc = "blocks"
    /\ run.blocks < MaxBlocks
    /\ \E block \in Blocks :
       \E resps \in IF MayTranslate(block) THEN ResponseRuns(LabelTexts)
                    ELSE {ResponseRun(0, <<>>)} :
        LET img == run.idx + 1
            blk == run.nblk[img] + 1
            r == resolve_topic(block.topic, GLOBAL_TOPIC_TRACKER,
                               TOPIC_TRANSLATION_CACHE, resps, key_index)
        IN  IF ~complete(block)
            THEN /\ run' = [run EXCEPT !.nblk[img] = blk, !.blocks = @ + 1]
                 /\ UNCHANGED <<TOPIC_TRANSLATION_CACHE, GLOBAL_TOPIC_TRACKER>>
            ELSE /\ GLOBAL_TOPIC_TRACKER' = r.tracker
                 /\ TOPIC_TRANSLATION_CACHE' = r.cache
                 /\ run' = [run EXCEPT
                        !.nblk[img] = blk, !.blocks = @ + 1,
                        !.tcalls[img] = IF r.translated THEN @ + 1 ELSE @,
                        !.mcalls[img] = IF r.mc # "none" THEN @ + 1 ELSE @,
                        !.questions = Append(@, question_obj(img, blk, block, r.tracker))]
    /\ UNCHANGED OtherThanRun

\* lines 472, 536-545: the raw text is used up; without questions process_image
\* returns None, else generate_explanations_only attaches the explanations
EndOfText ==
    /\ run.pc = "blocks"
    /\ run' = [run EXCEPT !.pc = IF run.questions = <<>> THEN "progress" ELSE "write",
                          !.produced[run.idx + 1] = run.questions]
    /\ UNCHANGED <<TOPIC_TRANSLATION_CACHE, GLOBAL_TOPIC_TRACKER, OtherThanRun>>

\* lines 684-692 without the write of lines 688-691
WriteOutputSkipped ==
    /\ run.pc = "write"
    /\ run' = [run EXCEPT !.pc = "progress",
                          !.all_json_data = Append(@, run.questions)]
    /\ UNCHANGED <<TOPIC_TRANSLATION_CACHE, GLOBAL_TOPIC_TRACKER, OtherThanRun>>

\* lines 684-692
WriteOutput ==
    /\ run.pc = "write"
    /\ run' = [run EXCEPT !.pc = "progress",
                          !.all_json_data = Append(@, run.questions),
                          !.out[run.idx + 1] = run.questions]
    /\ UNCHANGED <<TOPIC_TRANSLATION_CACHE, GLOBAL_TOPIC_TRACKER, OtherThanRun>>

\* lines 594-608
save_progress_state(processed_count, total_count) ==
    [exists |-> TRUE, processed |-> processed_count, total |-> total_count,
     topic_tracker |-> GLOBAL_TOPIC_TRACKER]

\* lines 694-698
SaveProgress ==
    /\ run.pc = "progress"
    /\ LET pause == /\ (run.idx + 1) % run.batch_size = 0
                     /\ (run.idx + 1) < run.images
       IN  run' = [run EXCEPT
                !.progress = save_progress_state(run.idx + 1, run.images),
                !.pc = IF pause THEN "pause" ELSE "image",
                !.idx = IF pause THEN @ ELSE @ + 1]
    /\ UNCHANGED <<TOPIC_TRANSLATION_CACHE, GLOBAL_TOPIC_TRACKER, OtherThanRun>>

\* lines 699-712: the break is over
PauseEnd ==
    /\ run.pc = "pause"
    /\ run' = [run EXCEPT !.pc = "image", !.idx = @ + 1]
    /\ UNCHANGED <<TOPIC_TRANSLATION_CACHE, GLOBAL_TOPIC_TRACKER, OtherThanRun>>

\* lines 719-730 and 547-569
MergeJsonFiles ==
    /\ run.pc = "image"
    /\ run.idx >= run.images
    /\ run' = [run EXCEPT
            !.pc = "done",
            !.full = IF merge_json_files(run.all_json_data) # <<>>
                     THEN merge_json_files(run.all_json_data) ELSE @]
    /\ UNCHANGED <<TOPIC_TRANSLATION_CACHE, GLOBAL_TOPIC_TRACKER, OtherThanRun>>

Next ==
    \/ StartFolder
    \/ ExtractText
    \/ ExtractRaises
    \/ StructureBlock
    \/ EndOfText
    \/ WriteOutput
    \/ SaveProgress
    \/ PauseEnd
    \/ MergeJsonFiles

Spec == Init /\ [][Next]_vars

(***************************************************************************)
(* Properties of the folder run.                                           *)
(***************************************************************************)
\* Topic State is set: both labels non-empty
TopicStateSet == /\ Truthy(GLOBAL_TOPIC_TRACKER.current_topic_bn)
                 /\ Truthy(GLOBAL_TOPIC_TRACKER.current_topic_en)

\* the step resolves an accepted block whose topic marker is marker
AcceptsBlock(marker) ==
    /\ run.pc = "blocks" /\ run'.pc = "blocks"
    /\ Len(run'.questions) = Len(run.questions) + 1
    /\ run'.questions[Len(run'.questions)].marker = marker

\* the step calls neither the Translator nor, through it, the Model Caller
NoTranslation ==
    /\ run'.tcalls = run.tcalls
    /\ run'.mcalls = run.mcalls
    /\ TOPIC_TRANSLATION_CACHE' = TOPIC_TRANSLATION_CACHE

\* C6: once both labels of Topic State are non-empty, every resolution of an
\* accepted block whose marker is "CONTINUE" leaves both labels as they were and
\* calls neither the Translator nor the Model Caller; a run of such blocks, of
\* any length, is a run of such steps.
C6_ContinueKeepsTopic ==
    [][(AcceptsBlock(CONTINUE) /\ TopicStateSet)
         => /\ GLOBAL_TOPIC_TRACKER' = GLOBAL_TOPIC_TRACKER
            /\ NoTranslation]_vars

\* two accepted CONTINUE blocks in a row, in the image after the one that set a
\* non-default topic
C6_Witness ==
    /\ run.pc = "blocks"
    /\ Len(run.questions) = 2
    /\ \A i \in 1..2 : /\ run.questions[i].marker = CONTINUE
                        /\ run.questions[i].topic_bn = TOPIC_1
                        /\ run.questions[i].topic_en = <<"Algebra">>
    /\ GLOBAL_TOPIC_TRACKER = Tracker(TOPIC_1, <<"Algebra">>)

\* C7: resolving an accepted block whose marker is "Self Test" leaves Topic State
\* equal to ("Self Test", "Self Test") whatever it was before, and the step calls
\* neither the Translator nor the Model Caller.
C7_SelfTest ==
    [][AcceptsBlock(SELF_TEST)
         => /\ GLOBAL_TOPIC_TRACKER' = Tracker(SELF_TEST, SELF_TEST)
            /\ NoTranslation]_vars

\* a "Self Test" block accepted right after a block under a non-default topic
C7_Witness ==
    /\ run.pc = "blocks"
    /\ Len(run.questions) = 2
    /\ run.questions[1].topic_bn = TOPIC_1
    /\ run.questions[2].marker = SELF_TEST
    /\ run.questions[2].topic_bn = SELF_TEST
    /\ run.questions[2].topic_en = SELF_TEST
    /\ GLOBAL_TOPIC_TRACKER = Tracker(SELF_TEST, SELF_TEST)

\* the folder of two images is done: image 1 had one block, complete, with a new
\* non-default marker, and image 2 one block, complete, with CONTINUE
TwoImageScenario ==
    /\ run.pc = "done"
    /\ run.images = 2
    /\ run.nblk = <<1, 1>>
    /\ Len(run.out[1]) = 1 /\ run.out[1][1].marker \in {TOPIC_1, TOPIC_2}
    /\ Len(run.out[2]) = 1 /\ run.out[2][1].marker = CONTINUE

\* C10: in that scenario both records carry the topic of image 1 and the same
\* English label, the Translator was called and invoked the Model Caller once
\* while image 1 was processed and not at all while image 2 was, and the merged
\* output is the record of image 1 followed by the record of image 2.
C10_TwoImages ==
    TwoImageScenario
        => /\ run.out[1][1].topic_bn = run.out[1][1].marker
           /\ run.out[2][1].topic_bn = run.out[1][1].topic_bn
           /\ run.out[2][1].topic_en = run.out[1][1].topic_en
           /\ Truthy(run.out[1][1].topic_en)
           /\ run.tcalls = <<1, 0>>
           /\ run.mcalls = <<1, 0>>
           /\ run.full = <<run.out[1][1], run.out[2][1]>>
           /\ run.full[1].id = <<1, 1>> /\ run.full[2].id = <<2, 1>>

C10_Witness ==
    /\ TwoImageScenario
    /\ run.out[1][1].topic_en = <<"Algebra">>
    /\ Len(run.full) = 2

\* process_image reported failure for image idx + 1: the extraction gave nothing
\* or no block of its text was accepted
ImageFailed == run.pc = "progress" /\ run.questions = <<>>

\* the checkpoint on file counts an image of this run that gave no records
CheckpointOfFailure ==
    /\ run.pc \in {"image", "pause", "done"}
    /\ run.progress.exists
    /\ run.progress.processed \in Range(run.attempts)
    /\ run.out[run.progress.processed] = <<>>

\* C25: when process_image reports failure for an image, Topic State is what it
\* was when the call began, and the checkpoint then written for the image
\* carries that pair, the one the previous image left.
C25_FailureKeepsTopic ==
    /\ ImageFailed => GLOBAL_TOPIC_TRACKER = run.prev_topic
    /\ CheckpointOfFailure
          => /\ run.progress.topic_tracker = run.prev_topic
             /\ run.progress.topic_tracker = GLOBAL_TOPIC_TRACKER

\* image 1 set the topic topic1; the text of image 2 held one block, which was
\* discarded, and the checkpoint of image 2 carries the topic of image 1
C25_Witness ==
    /\ CheckpointOfFailure
    /\ run.images = 2 /\ run.progress.processed = 2
    /\ Len(run.out[1]) = 1 /\ run.out[1][1].marker = TOPIC_1
    /\ run.nblk[2] = 1
    /\ run.prev_topic = Tracker(TOPIC_1, <<"Algebra">>)
    /\ run.progress.topic_tracker = Tracker(TOPIC_1, <<"Algebra">>)

(***************************************************************************)
(* SpecBatch: process_folder_with_breaks with interruptions.  The process  *)
(* can be stopped at any point of the loop (nothing catches a              *)
(* KeyboardInterrupt) and started again; the files it wrote stay.  Here    *)
(* process_image is one step and a page holds at most one block.           *)
(***************************************************************************)
\* what process_image meets on an image: the extraction gives no text, the text
\* has no complete block, or it has one complete block with the given marker
Pages ==
    {[kind |-> "absent", topic |-> None], [kind |-> "empty", topic |-> None]}
        \cup {[kind |-> "records", topic |-> m] : m \in {CONTINUE, TOPIC_1}}

\* the Topic State a new process has when it comes to the folder: the one of
\* module load, or the one an earlier folder of process_all_folders left
StaleTrackers == {EmptyTracker, Tracker(SELF_TEST, SELF_TEST)}

InitBatch == Init

\* lines 513-545: process_image on image idx + 1
ProcessImage ==
    /\ run.pc = "image"
    /\ run.idx < run.images
    /\ \E page \in Pages :
       \E resps \in IF page.topic = TOPIC_1 THEN ResponseRuns(LabelTexts)
                    ELSE {ResponseRun(0, <<>>)} :
        LET img == run.idx + 1
            block == [topic |-> page.topic, keys |-> required]
            r == resolve_topic(page.topic, GLOBAL_TOPIC_TRACKER,
                               TOPIC_TRANSLATION_CACHE, resps, key_index)
        IN  IF page.kind = "records"
            THEN /\ GLOBAL_TOPIC_TRACKER' = r.tracker
                 /\ TOPIC_TRANSLATION_CACHE' = r.cache
                 /\ run' = [run EXCEPT
                        !.pc = "write",
                        !.prev_topic = GLOBAL_TOPIC_TRACKER,
                        !.attempts = Append(@, img),
                        !.produced[img] = <<question_obj(img, 1, block, r.tracker)>>,
                        !.questions = <<question_obj(img, 1, block, r.tracker)>>]
            ELSE /\ run' = [run EXCEPT !.pc = "progress", !.questions = <<>>,
                                       !.produced[img] = <<>>,
                                       !.prev_topic = GLOBAL_TOPIC_TRACKER,
                                       !.attempts = Append(@, img)]
                 /\ UNCHANGED <<TOPIC_TRANSLATION_CACHE, GLOBAL_TOPIC_TRACKER>>
    /\ UNCHANGED OtherThanRun

\* the process is stopped inside the loop of lines 675-717
Interrupt ==
    /\ run.pc \in {"image", "write", "progress", "pause"}
    /\ run' = [run EXCEPT !.pc = "killed"]
    /\ UNCHANGED <<TOPIC_TRANSLATION_CACHE, GLOBAL_TOPIC_TRACKER, OtherThanRun>>

\* a new process comes to the folder: module state is that of lines 34-44, the
\* locals of the earlier run are gone, out, progress and full are files
Restart ==
    /\ run.pc \in {"killed", "done"}
    /\ run' = [run EXCEPT !.pc = "start", !.start_index = 0, !.idx = 0,
                          !.all_json_data = <<>>, !.questions = <<>>,
                          !.attempts = <<>>, !.prev_topic = EmptyTracker]
    /\ GLOBAL_TOPIC_TRACKER' \in StaleTrackers
    /\ TOPIC_TRANSLATION_CACHE' = EmptyCache
    /\ UNCHANGED OtherThanRun

\* the steps of the program itself
NextProgram ==
    \/ StartFolder
    \/ ProcessImage
    \/ ExtractRaises
    \/ WriteOutput
    \/ SaveProgress
    \/ PauseEnd
    \/ MergeJsonFiles

NextBatch ==
    \/ NextProgram
    \/ Interrupt
    \/ Restart

SpecBatch == InitBatch /\ [][NextBatch]_vars

(***************************************************************************)
(* Properties of the interrupted and resumed folder run.                   *)
(***************************************************************************)
\* the images start_index + 1, start_index + 2, ... in order
ImagesFrom(p, k) == [i \in 1..k |-> p + i]

\* the folder run is under way and began from a checkpoint
Resumed == run.pc \notin {"start", "killed"} /\ run.start_index > 0

\* the folder run has come to its first image: no checkpoint was written since
\* the run started, so run.progress is the checkpoint it started with
FirstImageDue == run.pc = "image" /\ run.attempts = <<>>

\* C11: a run that starts with a checkpoint recording processed = p, p < n, calls
\* process_image on the images p+1, p+2, ... in order and on no other, on all of
\* p+1..n by the time it is done, and when image p+1 is about to start the
\* Topic State is the snapshot of that checkpoint, whatever it was before.
C11_Resume ==
    /\ (FirstImageDue /\ run.progress.exists)
          => /\ run.progress.processed < run.images
             /\ run.start_index = run.progress.processed
             /\ run.idx = run.progress.processed
             /\ GLOBAL_TOPIC_TRACKER = run.progress.topic_tracker
    /\ (Resumed /\ run.start_index < run.images)
          => /\ Len(run.attempts) <= run.images - run.start_index
             /\ run.attempts = ImagesFrom(run.start_index, Len(run.attempts))
             /\ (run.pc = "done")
                   => (Len(run.attempts) = run.images - run.start_index)

\* a run resumed after image 1 of 2 is done; only image 2 was processed, and its
\* CONTINUE block came under the topic image 1 had set before the interruption
C11_Witness ==
    /\ Resumed /\ run.pc = "done"
    /\ run.images = 2 /\ run.start_index = 1
    /\ run.attempts = <<2>>
    /\ Len(run.out[1]) = 1 /\ run.out[1][1].marker = TOPIC_1
    /\ Len(run.out[2]) = 1 /\ run.out[2][1].marker = CONTINUE
    /\ run.out[2][1].topic_bn = TOPIC_1
    /\ run.out[2][1].topic_en = <<"Algebra">>

\* C12: once the loop is through with an image it attempted (it stands before
\* the next image, or the run is done), a checkpoint with processed = the number
\* of that image is on file, whether process_image returned records, returned
\* None or raised.
C12_CheckpointAfterAttempt ==
    (run.pc \in {"image", "done"} /\ run.attempts # <<>>)
        => /\ run.progress.exists
           /\ run.progress.processed = run.attempts[Len(run.attempts)]

\* C13: when the folder run is done, in one run or after a resume, the
\* consolidated output is the per-image record lists of the folder one after
\* the other in image order, and there is no consolidated output only if no
\* image produced records (run.out[i] is <<>> for an image without records).
C13_ConsolidatedAll ==
    (run.pc = "done") => (run.full = merge_json_files(run.out))

\* a pause is under way only with the checkpoint of the image just processed on
\* file, and only after an image whose number is a multiple of the batch size
\* and that is not the last
PauseAfterCheckpoint ==
    (run.pc = "pause")
        => /\ run.progress.exists
           /\ run.progress.processed = run.idx + 1
           /\ (run.idx + 1) % run.batch_size = 0
           /\ run.idx + 1 < run.images

\* the step goes on from image idx + 1 to the next image
MovesOn ==
    /\ run.pc \notin {"start", "killed"}
    /\ run'.pc = "image"
    /\ run'.idx = run.idx + 1

\* C19: the pause begins only after the checkpoint of the image just processed
\* was written, so that a run interrupted in the pause resumes at the next
\* image; and there is a pause after image i exactly when i is a multiple of
\* the batch size and not the last image: the run goes on from such an image
\* only out of a pause.
C19_Pause ==
    /\ []PauseAfterCheckpoint
    /\ [][(MovesOn /\ (run.idx + 1) % run.batch_size = 0 /\ run.idx + 1 < run.images)
            => run.pc = "pause"]_vars

\* every image the checkpoint counts as processed and that produced records has
\* them in its per-image output; the records in hand of an image whose output is
\* not yet written are those of an image the checkpoint does not count
OutputBeforeCheckpoint ==
    /\ run.progress.exists
          => /\ run.progress.processed <= run.progress.total
             /\ run.progress.total = run.images
             /\ \A i \in 1..run.progress.processed :
                   run.produced[i] # <<>> => run.out[i] = run.produced[i]
    /\ (run.pc = "write" /\ run.progress.exists)
          => run.progress.processed <= run.idx
    /\ (run.pc = "progress" /\ run.questions # <<>>)
          => run.out[run.idx + 1] = run.questions

\* a write of the checkpoint counts the image just processed and raises the
\* count of the checkpoint it replaces
CheckpointGrows ==
    (run.pc # "start" /\ run'.progress # run.progress)
        => /\ run'.progress.exists
           /\ run'.progress.processed = run.idx + 1
           /\ run.progress.exists
                 => run'.progress.processed > run.progress.processed

SpecBatchFair == SpecBatch /\ WF_vars(NextProgram)

\* the images attempted so far in this run are those from the start index on,
\* each once and in order; before an image all earlier ones were attempted,
\* and a run that is done attempted them all
AttemptedInOrder ==
    (run.pc \notin {"start", "killed"} /\ run.start_index < run.images)
        => /\ run.attempts = ImagesFrom(run.start_index, Len(run.attempts))
           /\ (run.pc = "image") => (Len(run.attempts) = run.idx - run.start_index)
           /\ (run.pc = "done") => (Len(run.attempts) = run.images - run.start_index)

\* C14: whatever happens on an image (no text extracted, no complete block,
\* an exception out of process_image), the run attempts every image from the
\* start index to the last exactly once in order, and a run that has come to an
\* image goes on to the merge step and is done, unless the process is stopped
\* from outside.
C14_NeverAborts ==
    /\ []AttemptedInOrder
    /\ (run.pc = "image") ~> (run.pc \in {"done", "killed"})

\* a run of two images is done although one gave no records and the other raised
C14_Witness ==
    /\ run.pc = "done"
    /\ run.images = 2 /\ run.start_index = 0
    /\ run.attempts = <<1, 2>>
    /\ run.progress.exists /\ run.progress.processed = 1
    /\ run.full = <<>>

(***************************************************************************)
(* SpecFolders: process_all_folders over folders that have no files yet,   *)
(* one after the other in one process.  Topic State and the Translation    *)
(* Cache are module state and live on from folder to folder; run holds the *)
(* locals and the files of the folder under way.                           *)
(***************************************************************************)
MaxFolders == 2

InitFolders == Init

\* lines 760-772: process_folder_with_breaks returned and the loop calls it on
\* the next folder, with the default batch_size of line 622
NextFolder ==
    /\ run.pc = "done"
    /\ run.folder < MaxFolders
    /\ \E n \in 1..MaxImages :
         run' = [InitRun(n, 20) EXCEPT !.folder = run.folder + 1]
    /\ UNCHANGED <<TOPIC_TRANSLATION_CACHE, GLOBAL_TOPIC_TRACKER, OtherThanRun>>

NextFolders ==
    \/ NextProgram
    \/ NextFolder

SpecFolders == InitFolders /\ [][NextFolders]_vars

\* the records the folder under way has emitted so far, in order
FolderRecords ==
    merge_json_files(run.out)
        \o (IF run.pc = "write" THEN run.questions ELSE <<>>)

\* the source labels the folder's own blocks have introduced up to record j:
\* their markers, and the default label
OwnLabels(j) == {GENERAL_BN} \cup {FolderRecords[i].marker : i \in 1..j}

\* C22: when a folder without checkpoint comes to its first image, both labels
\* of Topic State are unset whatever the folder before it left, and every record
\* of the folder carries a source label that the folder's own blocks introduced.
C22_FolderReset ==
    /\ (FirstImageDue /\ ~run.progress.exists) => GLOBAL_TOPIC_TRACKER = EmptyTracker
    /\ \A j \in 1..Len(FolderRecords) : FolderRecords[j].topic_bn \in OwnLabels(j)

\* the first folder ended under the topic topic1, and the first block of the
\* second folder, marked CONTINUE, came under the default pair
C22_Witness ==
    /\ run.folder = 2
    /\ TOPIC_1 \in DOMAIN TOPIC_TRANSLATION_CACHE
    /\ Len(FolderRecords) = 1
    /\ FolderRecords[1].marker = CONTINUE
    /\ FolderRecords[1].topic_bn = GENERAL_BN
    /\ FolderRecords[1].topic_en = GENERAL_EN

(***************************************************************************)
(* Tolerant Parser: safe_json_parse.  Here a text is a sequence of         *)
(* characters, except that a code fence and a language tag are one token   *)
(* each.  json.loads is modelled for objects whose members are strings,    *)
(* which is what the texts of SpecParse hold; the \u escape is not among   *)
(* their characters.                                                       *)
(***************************************************************************)
BS == "\\"
QUOTE == "\""
\* the three backquotes of a fenced-code marker, one token
FENCE == "<fence>"

\* the characters json.loads produces for the escapes \b \f \n \r \t
BACKSPACE == "<BS>"
FORMFEED == "<FF>"
NEWLINE == "\n"
CARRIAGE == "<CR>"
TAB == "<TAB>"

\* first index of character c in s at or after i, 0 if there is none
RECURSIVE find(_, _, _)
find(s, c, i) ==
    IF i > Len(s) THEN 0 ELSE IF s[i] = c THEN i ELSE find(s, c, i + 1)

\* last index of character c in s at or before i, 0 if there is none
RECURSIVE rfind(_, _, _)
rfind(s, c, i) ==
    IF i < 1 THEN 0 ELSE IF s[i] = c THEN i ELSE rfind(s, c, i - 1)

RECURSIVE split_lines(_)
\* str.split('\n')
split_lines(s) ==
    LET i == find(s, NEWLINE, 1)
    IN  IF i = 0 THEN <<s>>
        ELSE <<SubSeq(s, 1, i - 1)>> \o split_lines(SubSeq(s, i + 1, Len(s)))

RECURSIVE join_lines(_)
\* '\n'.join
join_lines(lines) ==
    IF lines = <<>> THEN <<>>
    ELSE IF Len(lines) = 1 THEN lines[1]
    ELSE lines[1] \o <<NEWLINE>> \o join_lines(Tail(lines))

is_fence_line(line) == startswith(strip(line, WS), <<FENCE>>)

\* lines 227-237: a fence line toggles in_block and is dropped; every other line
\* passes the test of line 235 whatever in_block is, and is kept
strip_fences(cleaned) ==
    IF startswith(cleaned, <<FENCE>>)
    THEN LET kept(line) == ~is_fence_line(line)
         IN  strip(join_lines(SelectSeq(split_lines(cleaned), kept)), WS)
    ELSE cleaned

\* line 239: re.search(r'\{.*\}', cleaned, re.DOTALL), None if there is no match
json_match(cleaned) ==
    LET i == find(cleaned, "{", 1)
        j == rfind(cleaned, "}", Len(cleaned))
    IN  IF i = 0 \/ j < i THEN None ELSE SubSeq(cleaned, i, j)

\* json.loads, the escapes of a string: the character after the backslash and
\* what it stands for
escapes ==
    [c \in {QUOTE, BS, "/", "b", "f", "n", "r", "t"} |->
        CASE c = "b" -> BACKSPACE
          [] c = "f" -> FORMFEED
          [] c = "n" -> NEWLINE
          [] c = "r" -> CARRIAGE
          [] c = "t" -> TAB
          [] OTHER -> c]

JSONDecodeError == [ok |-> FALSE, value |-> <<>>, next |-> 0]

RECURSIVE scan_string(_, _, _)
\* json.loads, the body of a string from position i on, acc being what was
\* decoded so far: ends at the first quote that no backslash escapes
scan_string(s, i, acc) ==
    IF i > Len(s) THEN JSONDecodeError
    ELSE IF s[i] = QUOTE THEN [ok |-> TRUE, value |-> acc, next |-> i + 1]
    ELSE IF s[i] = BS
    THEN IF i + 1 <= Len(s) /\ s[i + 1] \in DOMAIN escapes
         THEN scan_string(s, i + 2, Append(acc, escapes[s[i + 1]]))
         ELSE JSONDecodeError
    ELSE IF s[i] = NEWLINE THEN JSONDecodeError
    ELSE scan_string(s, i + 1, Append(acc, s[i]))

RECURSIVE skip_ws(_, _)
skip_ws(s, i) == IF i <= Len(s) /\ s[i] \in WS THEN skip_ws(s, i + 1) ELSE i

\* json.loads, a string that starts at position i
parse_string(s, i) ==
    IF i <= Len(s) /\ s[i] = QUOTE THEN scan_string(s, i + 1, <<>>)
    ELSE JSONDecodeError

RECURSIVE parse_members(_, _, _)
\* json.loads, the members of an object from position i on, acc being the
\* pairs read so far
parse_members(s, i, acc) ==
    LET k == parse_string(s, skip_ws(s, i))
        c == skip_ws(s, k.next)
        v == parse_string(s, skip_ws(s, c + 1))
        e == skip_ws(s, v.next)
        pairs == Append(acc, <<k.value, v.value>>)
    IN  IF ~k.ok \/ c > Len(s) \/ s[c] # ":" THEN JSONDecodeError
        ELSE IF ~v.ok \/ e > Len(s) THEN JSONDecodeError
        ELSE IF s[e] = "}" THEN [ok |-> TRUE, value |-> pairs, next |-> e + 1]
        ELSE IF s[e] = "," THEN parse_members(s, e + 1, pairs)
        ELSE JSONDecodeError

\* json.loads on a text that starts with "{": the pairs of the object, in
\* order, or JSONDecodeError; nothing but white space may follow the object
json_loads(s) ==
    LET i == skip_ws(s, 1)
        first == skip_ws(s, i + 1)
        r == IF first <= Len(s) /\ s[first] = "}"
             THEN [ok |-> TRUE, value |-> <<>>, next |-> first + 1]
             ELSE parse_members(s, i + 1, <<>>)
    IN  IF i > Len(s) \/ s[i] # "{" THEN JSONDecodeError
        ELSE IF r.ok /\ skip_ws(s, r.next) <= Len(s) THEN JSONDecodeError
        ELSE r

RECURSIVE escape_backslashes(_)
\* lines 253-255: a pair of backslashes stays a pair, any other backslash is
\* doubled
escape_backslashes(s) ==
    IF s = <<>> THEN <<>>
    ELSE IF Len(s) >= 2 /\ s[1] = BS /\ s[2] = BS
    THEN <<BS, BS>> \o escape_backslashes(SubSeq(s, 3, Len(s)))
    ELSE IF s[1] = BS THEN <<BS, BS>> \o escape_backslashes(Tail(s))
    ELSE <<s[1]>> \o escape_backslashes(Tail(s))

RECURSIVE drop_trailing_commas(_)
\* line 263: re.sub(r',(\s*[}\]])', r'\1', json_str)
drop_trailing_commas(s) ==
    IF s = <<>> THEN <<>>
    ELSE LET n == skip_ws(s, 2)
         IN  IF s[1] = "," /\ n <= Len(s) /\ s[n] \in {"}", "]"}
             THEN drop_trailing_commas(Tail(s))
             ELSE <<s[1]>> \o drop_trailing_commas(Tail(s))

\* lines 246-269: the three attempts on the matched text
parse_attempts(json_str) ==
    LET first == json_loads(json_str)
        escaped == escape_backslashes(json_str)
        second == json_loads(escaped)
        third == json_loads(drop_trailing_commas(escaped))
    IN  IF first.ok THEN first.value
        ELSE IF second.ok THEN second.value
        ELSE IF third.ok THEN third.value
        ELSE None

\* lines 219-272: the pairs of the parsed object, or None
safe_json_parse(text) ==
    IF ~Truthy(text) \/ strip(text, WS) = <<>> THEN None
    ELSE LET json_str == json_match(strip_fences(strip(text, WS)))
         IN  IF json_str = None THEN None ELSE parse_attempts(json_str)

(***************************************************************************)
(* SpecParse: safe_json_parse on a fenced object with one member whose     *)
(* value holds backslashes, with or without a comma after the member.      *)
(***************************************************************************)
MaxBody == 3

\* the characters of the value: the backslash, a letter that makes a JSON
\* escape with it, a letter that does not, a brace and a blank
BodyChars == {BS, "f", "s", "{", " "}

Bodies_(n) == UNION {[1..k -> BodyChars] : k \in 0..n}

\* the fence with its tag, the object {"k": "body"}, the closing fence, each on
\* a line of its own
Fenced(body, comma) ==
    <<FENCE, "json", NEWLINE, "{", QUOTE, "k", QUOTE, ":", " ", QUOTE>>
        \o body \o <<QUOTE>> \o (IF comma THEN <<",">> ELSE <<>>)
        \o <<"}", NEWLINE, FENCE>>

InitParse ==
    /\ API_KEYS = <<1>> /\ key_index = 0 /\ keylog = <<>>
    /\ \E body \in Bodies_(MaxBody), comma \in BOOLEAN :
         parse = [pc |-> "call", body |-> body, text |-> Fenced(body, comma),
                  result |-> None]
    /\ TOPIC_TRANSLATION_CACHE = EmptyCache /\ GLOBAL_TOPIC_TRACKER = EmptyTracker
    /\ caller = IdleCaller /\ threads = IdleThreads /\ pool = IdlePool
    /\ tr = IdleTr /\ run = IdleRun /\ ext = IdleExt

\* line 316: parsed_json = safe_json_parse(result)
Parse ==
    /\ parse.pc = "call"
    /\ parse' = [parse EXCEPT !.pc = "returned", !.result = safe_json_parse(parse.text)]
    /\ UNCHANGED <<API_KEYS, key_index, keylog, caller, threads, pool,
                   TOPIC_TRANSLATION_CACHE, GLOBAL_TOPIC_TRACKER, tr, run, ext>>

NextParse == Parse

SpecParse == InitParse /\ [][NextParse]_vars

\* the value holds a backslash, and no backslash stands next to another
SingleBackslashes(body) ==
    /\ BS \in Range(body)
    /\ \A i \in 1..(Len(body) - 1) : ~(body[i] = BS /\ body[i + 1] = BS)

\* C15: for a fenced object whose string value holds single un-escaped
\* backslashes, safe_json_parse returns the object in which the value is the
\* written characters, every backslash kept as a backslash.
C15_BackslashKept ==
    (parse.pc = "returned" /\ SingleBackslashes(parse.body))
        => parse.result = <<<<(<<"k">>), parse.body>>>>

(***************************************************************************)
(* SpecStructure: extract_structured_questions on one raw text, block by   *)
(* block, from the Topic State of module load.  ext.raw lists the keys of  *)
(* every block read so far, ext.questions the records emitted, ext.tcalls  *)
(* counts the calls of the Translator.                                     *)
(***************************************************************************)
MaxRawBlocks == 3

\* the keys a block's lines may put into q_data: all that are required, all but
\* one of them, or none (a blank block, line 359)
KeySets == {required, {}} \cup {required \ {f} : f \in required}

RawBlocks ==
    {[topic |-> m, keys |-> ks] : m \in Markers \cup {GENERAL_EN}, ks \in KeySets}

\* what the service answers to the translation prompt of a block: a quoted label
\* or nothing but quotes
StructureTexts == LabelTexts \cup {<<"\"", "\"">>}

InitStructure ==
    /\ API_KEYS = <<1>> /\ key_index = 0 /\ keylog = <<>>
    /\ TOPIC_TRANSLATION_CACHE = EmptyCache
    /\ GLOBAL_TOPIC_TRACKER = EmptyTracker
    /\ ext = [pc |-> "blocks", raw |-> <<>>, questions |-> <<>>, tcalls |-> 0,
              topic_for_this_question_str |-> None]
    /\ caller = IdleCaller /\ threads = IdleThreads /\ pool = IdlePool
    /\ tr = IdleTr /\ run = IdleRun /\ parse = IdleParse

OtherThanExt == <<API_KEYS, keylog, caller, threads, pool, tr, run, parse>>

\* lines 358-470: one round of the loop over the blocks
StructureRawBlock ==
    /\ ext.pc = "blocks"
    /\ Len(ext.raw) < MaxRawBlocks
    /\ \E block \in RawBlocks :
       \E resps \in IF MayTranslate(block) THEN ResponseRuns(StructureTexts)
                    ELSE {ResponseRun(0, <<>>)} :
        LET blk == Len(ext.raw) + 1
            r == resolve_topic(block.topic, GLOBAL_TOPIC_TRACKER,
                               TOPIC_TRANSLATION_CACHE, resps, key_index)
        IN  IF ~complete(block)
            THEN /\ ext' = [ext EXCEPT
                        !.raw = Append(@, block.keys),
                        !.topic_for_this_question_str = block.topic]
                 /\ UNCHANGED <<TOPIC_TRANSLATION_CACHE, GLOBAL_TOPIC_TRACKER, key_index>>
            ELSE /\ GLOBAL_TOPIC_TRACKER' = r.tracker
                 /\ TOPIC_TRANSLATION_CACHE' = r.cache
                 /\ key_index' = r.key_index
                 /\ ext' = [ext EXCEPT
                        !.raw = Append(@, block.keys),
                        !.topic_for_this_question_str = block.topic,
                        !.tcalls = IF r.translated THEN @ + 1 ELSE @,
                        !.questions = Append(@, question_obj(1, blk, block, r.tracker))]
    /\ UNCHANGED OtherThanExt

\* line 472
ReturnQuestions ==
    /\ ext.pc = "blocks"
    /\ ext' = [ext EXCEPT !.pc = "returned"]
    /\ UNCHANGED <<TOPIC_TRANSLATION_CACHE, GLOBAL_TOPIC_TRACKER, key_index, OtherThanExt>>

NextStructure ==
    \/ StructureRawBlock
    \/ ReturnQuestions

SpecStructure == InitStructure /\ [][NextStructure]_vars

(***************************************************************************)
(* Properties of extract_structured_questions.                             *)
(***************************************************************************)
\* the step reads a block with topic marker marker and emits its record
EmitsBlock(marker) ==
    /\ Len(ext'.questions) = Len(ext.questions) + 1
    /\ ext'.questions[Len(ext'.questions)].marker = marker

\* what the Translator returns for label L, read off the cache after the call:
\* the cached label, or the default when nothing was cached
Translated(L, cache) == IF L \in DOMAIN cache THEN cache[L] ELSE GENERAL_EN

\* the step calls neither the Translator nor the Model Caller
NoTranslatorCall ==
    /\ ext'.tcalls = ext.tcalls
    /\ key_index' = key_index
    /\ TOPIC_TRANSLATION_CACHE' = TOPIC_TRANSLATION_CACHE

\* C17: resolving an accepted block whose marker is a non-default label L: if L
\* differs from the current source-label, Topic State becomes (L, what the
\* Translator returns for L) with exactly one Translator call; if L is the
\* current source-label, Topic State stays as it is and the Translator is not
\* called, whatever the stored translated label is.
C17_NewLabel ==
    [][\A L \in {TOPIC_1, TOPIC_2} :
         EmitsBlock(L)
           => IF GLOBAL_TOPIC_TRACKER.current_topic_bn # L
              THEN /\ GLOBAL_TOPIC_TRACKER' =
                        Tracker(L, Translated(L, TOPIC_TRANSLATION_CACHE'))
                   /\ ext'.tcalls = ext.tcalls + 1
              ELSE /\ GLOBAL_TOPIC_TRACKER' = GLOBAL_TOPIC_TRACKER
                   /\ NoTranslatorCall]_vars

\* two blocks under the same label in a row, the translation of the first having
\* failed: the Translator was called once and the fallback label is still there
C17_Witness ==
    /\ Len(ext.questions) = 2
    /\ ext.questions[1].marker = TOPIC_1 /\ ext.questions[2].marker = TOPIC_1
    /\ ext.questions[1].topic_en = GENERAL_EN
    /\ GLOBAL_TOPIC_TRACKER = Tracker(TOPIC_1, GENERAL_EN)
    /\ ext.tcalls = 1
    /\ key_index = 1

\* C18: resolving an accepted block whose marker is a default label, or that has
\* no marker, leaves a set Topic State as it is and turns an unset one into the
\* default pair, without any call of the Translator.
C18_DefaultMarker ==
    [][\A m \in {GENERAL_BN, GENERAL_EN, None} :
         EmitsBlock(m)
           => /\ GLOBAL_TOPIC_TRACKER' =
                    IF Truthy(GLOBAL_TOPIC_TRACKER.current_topic_bn)
                    THEN GLOBAL_TOPIC_TRACKER
                    ELSE Tracker(GENERAL_BN, GENERAL_EN)
              /\ NoTranslatorCall]_vars

\* a block without marker made the default pair of the unset state, a labelled
\* block replaced it, and a block marked "General" left that topic in place
C18_Witness ==
    /\ Len(ext.questions) = 3
    /\ ext.questions[1].marker = None
    /\ ext.questions[1].topic_bn = GENERAL_BN /\ ext.questions[1].topic_en = GENERAL_EN
    /\ ext.questions[2].marker = TOPIC_1
    /\ ext.questions[3].marker = GENERAL_EN
    /\ ext.questions[3].topic_bn = TOPIC_1
    /\ ext.questions[3].topic_en = <<"Algebra">>
    /\ GLOBAL_TOPIC_TRACKER = Tracker(TOPIC_1, <<"Algebra">>)

\* the block supplies number, question text, the four options and the answer
Supplies(keys) ==
    {"number", "text", "opt_a", "opt_b", "opt_c", "opt_d", "answer"} \subseteq keys

\* the numbers of the blocks read so far that supply all of them
SuppliedBlocks == {i \in 1..Len(ext.raw) : Supplies(ext.raw[i])}

\* C20: the records emitted are exactly the blocks that supply number, text, the
\* four options and the answer, one record per such block and in input order; a
\* block that misses one of them gives no record and does not stop the blocks
\* after it from being processed.
C20_CompleteBlocksOnly ==
    /\ Len(ext.questions) = Cardinality(SuppliedBlocks)
    /\ \A j \in 1..Len(ext.questions) : ext.questions[j].id[2] \in SuppliedBlocks
    /\ \A j \in 1..(Len(ext.questions) - 1) :
          ext.questions[j].id[2] < ext.questions[j + 1].id[2]

\* a block without answer between two complete blocks: records of blocks 1 and 3
C20_Witness ==
    /\ ext.pc = "returned"
    /\ ext.raw = <<required, required \ {"answer"}, required>>
    /\ Len(ext.questions) = 2
    /\ ext.questions[1].id = <<1, 1>> /\ ext.questions[2].id = <<1, 3>>

\* the step reads a block that misses a required field
DiscardsBlock ==
    /\ Len(ext'.raw) = Len(ext.raw) + 1
    /\ ~Supplies(ext'.raw[Len(ext'.raw)])

\* C24: a block that is discarded as incomplete leaves Topic State unchanged,
\* causes no Translator call and emits no record, whatever topic marker it
\* carries; Topic State changes only in a step that accepts a block.
C24_DiscardedBlock ==
    [][/\ DiscardsBlock
          => /\ GLOBAL_TOPIC_TRACKER' = GLOBAL_TOPIC_TRACKER
             /\ NoTranslatorCall
             /\ ext'.questions = ext.questions
       /\ GLOBAL_TOPIC_TRACKER' # GLOBAL_TOPIC_TRACKER
          => Len(ext'.questions) = Len(ext.questions) + 1]_vars

\* a block without answer carrying the new marker topic1 was read after an
\* accepted block: the default pair of the first block is still the topic and
\* the Translator was never called
C24_Witness ==
    /\ ext.raw = <<required, required \ {"answer"}>>
    /\ ext.topic_for_this_question_str = TOPIC_1
    /\ Len(ext.questions) = 1
    /\ GLOBAL_TOPIC_TRACKER = Tracker(GENERAL_BN, GENERAL_EN)
    /\ TOPIC_TRANSLATION_CACHE = EmptyCache
    /\ ext.tcalls = 0

\* a label is set when it is neither None nor the empty text
LabelsBothOrNeither(tracker) ==
    Truthy(tracker.current_topic_bn) <=> Truthy(tracker.current_topic_en)

\* C26: at every block boundary the two labels of Topic State are both unset or
\* both set; every emitted record carries the two labels of Topic State as they
\* stood right after its block was resolved (the last record those of the
\* current Topic State), and its source label is never unset.
C26_LabelsPaired ==
    /\ LabelsBothOrNeither(GLOBAL_TOPIC_TRACKER)
    /\ \A j \in 1..Len(ext.questions) : Truthy(ext.questions[j].topic_bn)
    /\ ext.questions # <<>>
         => LET last == ext.questions[Len(ext.questions)]
            IN  Tracker(last.topic_bn, last.topic_en) = GLOBAL_TOPIC_TRACKER

\* the part of C26 that holds: the context of the records
C26_RecordContext ==
    /\ \A j \in 1..Len(ext.questions) : Truthy(ext.questions[j].topic_bn)
    /\ ext.questions # <<>>
         => LET last == ext.questions[Len(ext.questions)]
            IN  Tracker(last.topic_bn, last.topic_en) = GLOBAL_TOPIC_TRACKER

(***************************************************************************)
(* The answer line and the options of one block (lines 368-386, 423-430).  *)
(* A line is a sequence of characters; the prefix 'ANS:' is one token.      *)
(***************************************************************************)
MaxAnswer == 3

ANS == "ANS:"

\* what follows the prefix on the answer line of the extracted text
AnswerChars == {"b", "D", "e", "(", " ", ANS}

RECURSIVE AnswerTexts(_)
AnswerTexts(n) ==
    IF n = 0 THEN {<<>>}
    ELSE AnswerTexts(n - 1)
           \cup {Append(t, c) : t \in {u \in AnswerTexts(n - 1) : Len(u) = n - 1},
                                c \in AnswerChars}

\* str.lower() on one character
lower(c) ==
    CASE c = "A" -> "a" [] c = "B" -> "b" [] c = "C" -> "c" [] c = "D" -> "d"
      [] OTHER -> c

\* line.replace('ANS:', ''): every occurrence goes
RECURSIVE replace_ANS(_)
replace_ANS(line) ==
    IF line = <<>> THEN <<>>
    ELSE IF Head(line) = ANS THEN replace_ANS(Tail(line))
    ELSE <<Head(line)>> \o replace_ANS(Tail(line))

\* lines 385-386: the answer letter kept for the line
answer_key(line) ==
    LET stripped == strip(replace_ANS(line), WS)
        answer_raw == [i \in 1..Len(stripped) |-> lower(stripped[i])]
    IN  IF answer_raw # <<>> THEN answer_raw[1] ELSE "a"

\* lines 423-428
options(q_data) ==
    << [key |-> "a", text |-> q_data.opt_a],
       [key |-> "b", text |-> q_data.opt_b],
       [key |-> "c", text |-> q_data.opt_c],
       [key |-> "d", text |-> q_data.opt_d] >>

\* the option texts of the block under study
OptionTexts == [opt_a |-> <<"1">>, opt_b |-> <<"2">>, opt_c |-> <<"3">>, opt_d |-> <<"4">>]

InitAnswer ==
    /\ API_KEYS = <<1>> /\ key_index = 0 /\ keylog = <<>>
    /\ TOPIC_TRANSLATION_CACHE = EmptyCache
    /\ GLOBAL_TOPIC_TRACKER = EmptyTracker
    /\ \E text \in AnswerTexts(MaxAnswer) :
         ext = [pc |-> "line", line |-> <<ANS>> \o text, question |-> None]
    /\ caller = IdleCaller /\ threads = IdleThreads /\ pool = IdlePool
    /\ tr = IdleTr /\ run = IdleRun /\ parse = IdleParse

\* lines 369, 383-386, 423-430, 450-463: the answer line is read and the record
\* of the block is emitted
StructureAnswer ==
    /\ ext.pc = "line"
    /\ LET line == strip(ext.line, WS)
       IN  /\ startswith(line, <<ANS>>)
           /\ ext' = [ext EXCEPT
                  !.pc = "emitted",
                  !.question = [options |-> options(OptionTexts),
                                correct_answer |-> answer_key(line)]]
    /\ UNCHANGED <<TOPIC_TRANSLATION_CACHE, GLOBAL_TOPIC_TRACKER, key_index, OtherThanExt>>

NextAnswer == StructureAnswer

SpecAnswer == InitAnswer /\ [][NextAnswer]_vars

OptionKeys == <<"a", "b", "c", "d">>

\* C21: every emitted record has exactly four options with the keys a, b, c, d
\* in that order, and its correct-answer key is one of a, b, c, d, whatever the
\* text of the answer line.
C21_AnswerKey ==
    ext.pc = "emitted"
      => /\ [i \in 1..Len(ext.question.options) |-> ext.question.options[i].key]
              = OptionKeys
         /\ ext.question.correct_answer \in Range(OptionKeys)

\* the part of C21 that holds: the four option keys
C21_Options ==
    ext.pc = "emitted"
      => [i \in 1..Len(ext.question.options) |-> ext.question.options[i].key]
           = OptionKeys

====
